---- MODULE Spec2Model ----
(***************************************************************************)
(* Model of the PlaceWell EIH site-evaluation pages:                       *)
(*   pages/Scoring_Model.py     SiteScorer.haversine / score_location and  *)
(*                              the page's geocode retry loop              *)
(*   pages/Build_Feasibility.py analyze_feasibility,                       *)
(*                              generate_risk_assessment, retry loop       *)
(*   pages/Service_Area.py      geocode retry loop                         *)
(*                                                                         *)
(* Numbers.  Python floats are modelled by exact rationals [n, d] (d > 0,  *)
(* lowest terms); round() is round-half-to-even as in Python 3.            *)
(* Latitudes and longitudes are integers in millidegrees (37.335 deg is    *)
(* 37335).                                                                 *)
(***************************************************************************)
EXTENDS Integers, Sequences, FiniteSets, TLC

(***************************************************************************)
(* Bounds of the model.                                                    *)
(***************************************************************************)
MaxLatStep == 8
MaxLonStep == 12
MaxSizeK == 2

(***************************************************************************)
(* Rational arithmetic standing for Python float arithmetic.               *)
(***************************************************************************)
Abs(x) == IF x < 0 THEN -x ELSE x

RECURSIVE GCD(_, _)
GCD(a, b) == IF b = 0 THEN a ELSE GCD(b, a % b)

Q(n, d) ==
    LET g == GCD(Abs(n), Abs(d))
        s == IF d < 0 THEN -1 ELSE 1
    IN  [n |-> (s * n) \div g, d |-> (s * d) \div g]

QInt(k) == [n |-> k, d |-> 1]
QAdd(x, y) == Q(x.n * y.d + y.n * x.d, x.d * y.d)
QSub(x, y) == Q(x.n * y.d - y.n * x.d, x.d * y.d)
QMul(x, y) == Q(x.n * y.n, x.d * y.d)
QDiv(x, y) == Q(x.n * y.d, x.d * y.n)
QLe(x, y) == x.n * y.d <= y.n * x.d
QMin(x, y) == IF QLe(x, y) THEN x ELSE y
QIsInt(x) == x.d = 1

\* Python 3 round(x): nearest integer, ties to the even one.
PyRound(x) ==
    LET f == x.n \div x.d
        r == x.n % x.d
    IN  IF 2 * r < x.d THEN f
        ELSE IF 2 * r > x.d THEN f + 1
        ELSE IF f % 2 = 0 THEN f ELSE f + 1

\* Python 3 round(x, ndigits) for ndigits = 1 (scale 10) or 2 (scale 100).
PyRoundTo(x, scale) == Q(PyRound(QMul(x, QInt(scale))), scale)

(***************************************************************************)
(* Inputs: the coordinate grid, the facility types of the selectbox and    *)
(* the sizes of the number_input (min_value 100).                          *)
(***************************************************************************)
Lats == {37305 + 5 * k : k \in 0..MaxLatStep}
Lons == {-121895 + 5 * k : k \in 0..MaxLonStep}
FacilityTypes ==
    {"Temporary Shelter", "Transitional Housing", "Supportive Housing", "Emergency Shelter"}
Sizes == {100} \cup {1000 * k + e : k \in 1..MaxSizeK, e \in 0..1}

(***************************************************************************)
(* Build_Feasibility.py: analyze_feasibility                               *)
(***************************************************************************)
\* A plausible slip: the northern edge of the downtown box exclusive.
InDowntown_OpenEdge(lat, lon) ==
    37330 <= lat /\ lat < 37340 /\ -121890 <= lon /\ lon <= -121880

\* 37.33 <= lat <= 37.34 and -121.89 <= lon <= -121.88
InDowntown(lat, lon) == 37330 <= lat /\ lat <= 37340 /\ -121890 <= lon /\ lon <= -121880
\* 37.31 <= lat <= 37.32 and -121.85 <= lon <= -121.84
InResidential(lat, lon) == 37310 <= lat /\ lat <= 37320 /\ -121850 <= lon /\ lon <= -121840

ZoningBase(lat, lon, ftype) ==
    IF InDowntown(lat, lon)
    THEN (IF ftype \in {"Temporary Shelter", "Emergency Shelter"} THEN 90 ELSE 75)
    ELSE IF InResidential(lat, lon)
    THEN (IF ftype \in {"Supportive Housing", "Transitional Housing"} THEN 65 ELSE 45)
    ELSE 80

\* A plausible slip: the size thresholds taken inclusively.
InfrastructureBase_Inclusive(size) ==
    IF size >= 2000 THEN 60 ELSE IF size >= 1000 THEN 75 ELSE 85

\* if size_sqm > 2000: 60 elif size_sqm > 1000: 75 else: 85
InfrastructureBase(size) ==
    IF size > 2000 THEN 60 ELSE IF size > 1000 THEN 75 ELSE 85

\* A plausible slip: the Temporary Shelter multiplier left out.
ZoningAdjusted_NoMultiplier(lat, lon, ftype) == QInt(ZoningBase(lat, lon, ftype))

\* zoning_score *= 1.1 for "Temporary Shelter"
ZoningAdjusted(lat, lon, ftype) ==
    IF ftype = "Temporary Shelter"
    THEN QMul(QInt(ZoningBase(lat, lon, ftype)), Q(11, 10))
    ELSE QInt(ZoningBase(lat, lon, ftype))

\* infrastructure_score *= 0.9 for "Supportive Housing" (elif: never both)
InfrastructureAdjusted(ftype, size) ==
    IF ftype = "Supportive Housing"
    THEN QMul(QInt(InfrastructureBase(size)), Q(9, 10))
    ELSE QInt(InfrastructureBase(size))

\* A plausible slip: the adjusted score is returned as is.
ClampRound_Unrounded(x) == x

\* min(100, max(0, round(x)))
ClampRound(x) ==
    LET r == PyRound(x)
        lo == IF r < 0 THEN 0 ELSE r
    IN  QInt(IF lo > 100 THEN 100 ELSE lo)

analyze_feasibility(lat, lon, ftype, size) ==
    LET z == ClampRound(ZoningAdjusted(lat, lon, ftype))
        i == ClampRound(InfrastructureAdjusted(ftype, size))
    IN  [zoning_score |-> z,
         infrastructure_score |-> i,
         overall_score |-> PyRoundTo(QAdd(QMul(Q(6, 10), z), QMul(Q(4, 10), i)), 10)]

(***************************************************************************)
(* Build_Feasibility.py: generate_risk_assessment                          *)
(* The returned dict is a sequence of [key, value] entries in insertion    *)
(* order; each value is the list of statements of that category.           *)
(***************************************************************************)
QLt(x, y) == ~QLe(y, x)

\* A plausible slip: the first threshold taken inclusively.
ZoningStatement_Inclusive(zoning_score) ==
    IF QLe(zoning_score, QInt(70))
    THEN "High risk of zoning conflicts - may require extensive variance process"
    ELSE IF QLt(zoning_score, QInt(85))
    THEN "Moderate zoning challenges - conditional use permit likely required"
    ELSE "Zoning appears favorable, but standard permits still required"

\* if results['zoning_score'] < 70: ... elif ... < 85: ... else: ...
ZoningStatement(zoning_score) ==
    IF QLt(zoning_score, QInt(70))
    THEN "High risk of zoning conflicts - may require extensive variance process"
    ELSE IF QLt(zoning_score, QInt(85))
    THEN "Moderate zoning challenges - conditional use permit likely required"
    ELSE "Zoning appears favorable, but standard permits still required"

\* A plausible slip: the final else branch left out.
ConstructionRisks_NoElse(infrastructure_score) ==
    IF QLt(infrastructure_score, QInt(60))
    THEN <<"Significant infrastructure upgrades needed",
           "Potential soil stability issues",
           "Drainage system may require major modifications">>
    ELSE IF QLt(infrastructure_score, QInt(80))
    THEN <<"Moderate infrastructure improvements needed",
           "Some site grading may be required",
           "Utility connections may need upgrades">>
    ELSE <<>>

\* A plausible slip: the severe branch taken at 60 as well.
ConstructionRisks_Inclusive(infrastructure_score) ==
    IF QLe(infrastructure_score, QInt(60))
    THEN <<"Significant infrastructure upgrades needed",
           "Potential soil stability issues",
           "Drainage system may require major modifications">>
    ELSE IF QLt(infrastructure_score, QInt(80))
    THEN <<"Moderate infrastructure improvements needed",
           "Some site grading may be required",
           "Utility connections may need upgrades">>
    ELSE <<"Infrastructure appears adequate for development">>

\* if results['infrastructure_score'] < 60: ... elif ... < 80: ... else: ...
ConstructionRisks(infrastructure_score) ==
    IF QLt(infrastructure_score, QInt(60))
    THEN <<"Significant infrastructure upgrades needed",
           "Potential soil stability issues",
           "Drainage system may require major modifications">>
    ELSE IF QLt(infrastructure_score, QInt(80))
    THEN <<"Moderate infrastructure improvements needed",
           "Some site grading may be required",
           "Utility connections may need upgrades">>
    ELSE <<"Infrastructure appears adequate for development">>

\* A plausible slip: the downtown test with its eastern edge exclusive.
RiskDowntown_OpenEdge(lat, lon) ==
    37330 <= lat /\ lat <= 37340 /\ -121890 <= lon /\ lon < -121880

\* The rectangles as generate_risk_assessment writes them out again.
RiskDowntown(lat, lon) == 37330 <= lat /\ lat <= 37340 /\ -121890 <= lon /\ lon <= -121880
RiskResidential(lat, lon) == 37310 <= lat /\ lat <= 37320 /\ -121850 <= lon /\ lon <= -121840

PoliticalSensitivities(lat, lon) ==
    IF RiskDowntown(lat, lon)
    THEN <<"High visibility location - increased community engagement needed",
           "Multiple stakeholders in the area",
           "Historic district considerations">>
    ELSE IF RiskResidential(lat, lon)
    THEN <<"Active neighborhood association in area",
           "School proximity considerations",
           "Residential density concerns">>
    ELSE <<"Standard community engagement process required">>

EnvironmentalFlags(size) ==
    IF size > 2000
    THEN <<"Large site - comprehensive environmental review required",
           "Stormwater management plan needed",
           "Potential habitat impact assessment required">>
    ELSE IF size > 1000
    THEN <<"Moderate environmental review required",
           "Basic stormwater management needed",
           "Site-specific environmental considerations">>
    ELSE <<"Standard environmental review process">>

\* The facility-type statement appended to zoning_challenges at the end.
FacilityNote(ftype) ==
    IF ftype = "Temporary Shelter" THEN <<"Temporary use permits may be required">>
    ELSE IF ftype = "Supportive Housing"
    THEN <<"Permanent housing zoning requirements apply">>
    ELSE <<>>

generate_risk_assessment(lat, lon, ftype, size, res) ==
    <<[key |-> "zoning_challenges",
       value |-> <<ZoningStatement(res.zoning_score)>> \o FacilityNote(ftype)],
      [key |-> "construction_risks",
       value |-> ConstructionRisks(res.infrastructure_score)],
      [key |-> "political_sensitivities",
       value |-> PoliticalSensitivities(lat, lon)],
      [key |-> "environmental_flags",
       value |-> EnvironmentalFlags(size)]>>

(***************************************************************************)
(* Scoring_Model.py: the reference tables (module globals census_df and    *)
(* shelters_df, read from CSV files that are not part of the sources).     *)
(* A DataFrame is [columns: sequence of names, rows: sequence of rows],    *)
(* a row a function from column name to value.  "Poverty Rate (%)" is      *)
(* held in tenths of a percent.                                            *)
(***************************************************************************)
MaxTracts == 2
MaxShelters == 2
MaxCalls == 2

CensusColumns ==
    <<"Tract ID", "Latitude", "Longitude", "Poverty Rate (%)", "Unhoused Count">>
SheltersColumns == <<"Latitude", "Longitude", "Capacity", "Current Occupancy">>

Tract(id, lat, lon, pov, unh) ==
    ("Tract ID" :> id) @@ ("Latitude" :> lat) @@ ("Longitude" :> lon)
        @@ ("Poverty Rate (%)" :> pov) @@ ("Unhoused Count" :> unh)

Shelter(lat, lon, cap, occ) ==
    ("Latitude" :> lat) @@ ("Longitude" :> lon)
        @@ ("Capacity" :> cap) @@ ("Current Occupancy" :> occ)

\* Candidate rows.  Tracts 5001 and 5002 are equidistant from (37335, -121885).
TractRows ==
    { Tract(5001, 37330, -121885, 250, 200),
      Tract(5002, 37340, -121885, 640, 500),
      Tract(5003, 37315, -121850, 0, 0) }

\* Shelters about 0.6 km, 4.4 km and 8.9 km north of (37335, -121885); one row
\* reports more occupants than capacity.
ShelterRows ==
    { Shelter(37340, -121885, 100, 50),
      Shelter(37375, -121885, 100, 0),
      Shelter(37340, -121885, 10, 80),
      Shelter(37415, -121885, 100, 50) }

SeqsUpTo(S, n) == UNION {[1..k -> S] : k \in 0..n}

CensusTables == {[columns |-> CensusColumns, rows |-> r] : r \in SeqsUpTo(TractRows, MaxTracts)}
SheltersTables ==
    {[columns |-> SheltersColumns, rows |-> r] : r \in SeqsUpTo(ShelterRows, MaxShelters)}

\* The coordinates a site is scored at.
ScoreCoords == {<<37335, -121885>>, <<37315, -121845>>, <<37305, -121895>>}

InSeq(x, s) == \E i \in DOMAIN s : s[i] = x

\* df[name] = values: adds the column, or overwrites it in place.
SetColumn(df, name, values) ==
    [columns |-> IF InSeq(name, df.columns) THEN df.columns ELSE Append(df.columns, name),
     rows |-> [i \in DOMAIN df.rows |-> (name :> values[i]) @@ df.rows[i]]]

(***************************************************************************)
(* SiteScorer.haversine.  The source computes                              *)
(*     R * atan2(sqrt(a), sqrt(1 - a)),   R = 6371,                        *)
(* which is R * asin(sqrt(a)): half of the great-circle distance           *)
(* 2 * R * asin(sqrt(a)).  Trigonometry is replaced by its first-order     *)
(* expansion around latitude 37.3 deg: one millidegree of latitude is      *)
(* 111 m, one of longitude 88 m.  Distances are metres, rounded up, so     *)
(* that d <= 3000 is decided as on the real value.                         *)
(***************************************************************************)
MetresPerMilliLat == 111
MetresPerMilliLon == 88

RECURSIVE SqrtSearch(_, _, _)
SqrtSearch(x, lo, hi) ==
    IF lo >= hi THEN lo
    ELSE LET mid == (lo + hi) \div 2
         IN  IF mid * mid >= x THEN SqrtSearch(x, lo, mid) ELSE SqrtSearch(x, mid + 1, hi)

\* Least r with r * r >= x (x < 2^31).
CeilSqrt(x) == SqrtSearch(x, 0, 46340)

\* 2 * R * asin(sqrt(a)) in metres: the great-circle distance of the two points.
GreatCircle(lat1, lon1, lat2, lon2) ==
    LET dy == MetresPerMilliLat * (lat2 - lat1)
        dx == MetresPerMilliLon * (lon2 - lon1)
    IN  CeilSqrt(dy * dy + dx * dx)

\* R * atan2(sqrt(a), sqrt(1 - a)) in metres, as the source returns it.
haversine(lat1, lon1, lat2, lon2) ==
    LET dy == MetresPerMilliLat * (lat2 - lat1)
        dx == MetresPerMilliLon * (lon2 - lon1)
    IN  (CeilSqrt(dy * dy + dx * dx) + 1) \div 2

(***************************************************************************)
(* SiteScorer.score_location, statement by statement.                      *)
(***************************************************************************)
\* distance(row): sqrt(dlat^2 + dlon^2).  The column holds the radicand,
\* dlat^2 + dlon^2 in millidegrees^2; sqrt is increasing, so idxmin and ties
\* are those of the source.
distance(row, lat, lon) ==
    (row["Latitude"] - lat) * (row["Latitude"] - lat)
        + (row["Longitude"] - lon) * (row["Longitude"] - lon)

\* census_df['dist'] = census_df.apply(distance, axis=1)
WriteDist(census, lat, lon) ==
    SetColumn(census, "dist", [i \in DOMAIN census.rows |-> distance(census.rows[i], lat, lon)])

\* A plausible slip: the last occurrence of the minimum is taken.
idxmin_Last(df, col) ==
    CHOOSE i \in DOMAIN df.rows :
        /\ \A j \in DOMAIN df.rows : df.rows[i][col] <= df.rows[j][col]
        /\ \A j \in DOMAIN df.rows : j > i => df.rows[j][col] > df.rows[i][col]

\* Series.idxmin(): the label of the first occurrence of the minimum.
idxmin(df, col) ==
    CHOOSE i \in DOMAIN df.rows :
        /\ \A j \in DOMAIN df.rows : df.rows[i][col] <= df.rows[j][col]
        /\ \A j \in DOMAIN df.rows : j < i => df.rows[j][col] > df.rows[i][col]

\* best_row = census_df.loc[census_df['dist'].idxmin()]
BestRow(census) == census.rows[idxmin(census, "dist")]

\* A plausible slip: the column accumulated (+=) instead of assigned.
WriteDistanceKm_Accumulate(shelters, lat, lon) ==
    SetColumn(shelters, "distance_km",
              [i \in DOMAIN shelters.rows |->
                  (IF InSeq("distance_km", shelters.columns)
                   THEN shelters.rows[i]["distance_km"] ELSE 0)
                  + haversine(lat, lon, shelters.rows[i]["Latitude"],
                              shelters.rows[i]["Longitude"])])

\* shelters_df['distance_km'] = shelters_df.apply(lambda row: self.haversine(...), axis=1)
WriteDistanceKm(shelters, lat, lon) ==
    SetColumn(shelters, "distance_km",
              [i \in DOMAIN shelters.rows |->
                  haversine(lat, lon, shelters.rows[i]["Latitude"], shelters.rows[i]["Longitude"])])

RadiusMetres == 3000

\* nearby_shelters = shelters_df[shelters_df['distance_km'] <= 3]
NearbyShelters(shelters) ==
    SelectSeq(shelters.rows, LAMBDA row : row["distance_km"] <= RadiusMetres)

RECURSIVE QSum(_)
QSum(s) == IF s = <<>> THEN QInt(0) ELSE QAdd(Head(s), QSum(Tail(s)))

\* (nearby['Current Occupancy'] / nearby['Capacity']).mean()
MeanOccupancy(nearby) ==
    QDiv(QSum([i \in DOMAIN nearby |->
                  Q(nearby[i]["Current Occupancy"], nearby[i]["Capacity"])]),
         QInt(Len(nearby)))

ShelterAccess(nearby) ==
    IF nearby # <<>>
    THEN QMin(QSub(QInt(1), MeanOccupancy(nearby)), QInt(1))
    ELSE Q(2, 10)

\* Lines 117-151: the scores of a matched tract row and the nearby shelters.
Scores(best_row, nearby) ==
    LET poverty_score == QMin(Q(best_row["Poverty Rate (%)"], 500), QInt(1))
        unhoused_score == QMin(Q(best_row["Unhoused Count"], 400), QInt(1))
        env_justice_score == Q(65, 100)
        infrastructure_score == QDiv(QAdd(QAdd(Q(9, 10), Q(7, 10)), Q(85, 100)), QInt(3))
        shelter_access_score == ShelterAccess(nearby)
        services_score ==
            QDiv(QAdd(QAdd(QAdd(shelter_access_score, Q(7, 10)), Q(6, 10)), Q(8, 10)), QInt(4))
        community_impact ==
            QDiv(QAdd(QAdd(poverty_score, unhoused_score), env_justice_score), QInt(3))
        total_score ==
            PyRoundTo(QAdd(QAdd(QMul(Q(4, 10), services_score),
                                QMul(Q(3, 10), infrastructure_score)),
                           QMul(Q(3, 10), community_impact)), 100)
    IN  [kind |-> "scores",
         total_score |-> total_score,
         component_scores |->
             [Access_to_Services |-> services_score,
              Infrastructure |-> infrastructure_score,
              Community_Impact |-> community_impact,
              Poverty_Rate |-> poverty_score,
              Unhoused_Count |-> unhoused_score,
              Shelter_Access |-> shelter_access_score],
         tract_id |-> best_row["Tract ID"]]

Raised(cls) == [kind |-> "raised", exception |-> cls]

(***************************************************************************)
(* On an empty frame DataFrame.apply(axis=1) returns an empty DataFrame,   *)
(* and whether df[name] = <that frame> raises ValueError or stores an      *)
(* empty column depends on the pandas version: strict is TRUE for a pandas *)
(* that raises.  idxmin of an empty column raises ValueError in all.       *)
(***************************************************************************)
score_location(census, shelters, lat, lon, strict) ==
    IF census.rows = <<>>
    THEN [census_df |-> IF strict THEN census ELSE WriteDist(census, lat, lon),
          shelters_df |-> shelters,
          result |-> Raised("ValueError")]
    ELSE LET c1 == WriteDist(census, lat, lon)
             best_row == BestRow(c1)
         IN  IF shelters.rows = <<>> /\ strict
             THEN [census_df |-> c1, shelters_df |-> shelters, result |-> Raised("ValueError")]
             ELSE LET s1 == WriteDistanceKm(shelters, lat, lon)
                  IN  [census_df |-> c1,
                       shelters_df |-> s1,
                       result |-> Scores(best_row, NearbyShelters(s1))]

(***************************************************************************)
(* State.                                                                  *)
(*   page .. exc       a page run: the button handler with its geocode     *)
(*                     retry loop (the same loop in the three pages)       *)
(*   facility_type, size_sqm, latitude, longitude   the handler's inputs   *)
(*   results           analyze_feasibility's return value                  *)
(*   risks             generate_risk_assessment's return value             *)
(*   result            score_location's return value                       *)
(*   census_df, shelters_df   the module-global reference tables           *)
(*   loaded            the two tables as read_csv returned them            *)
(*   strict            the pandas behaviour on empty frames (see above)    *)
(*   ncalls            score_location calls made so far                    *)
(*   tpc .. tresult    two score_location evaluations running concurrently *)
(***************************************************************************)
VARIABLES page, pc, attempt, location, events, answers, shown, exc,
          facility_type, size_sqm, latitude, longitude, results, risks, result,
          census_df, shelters_df, loaded, strict, ncalls,
          tpc, tcoord, tbest, tresult

vars == <<page, pc, attempt, location, events, answers, shown, exc,
          facility_type, size_sqm, latitude, longitude, results, risks, result,
          census_df, shelters_df, loaded, strict, ncalls,
          tpc, tcoord, tbest, tresult>>

geoVars == <<page, pc, attempt, location, events, answers, shown, exc>>
inputVars == <<facility_type, size_sqm, latitude, longitude>>
tableVars == <<census_df, shelters_df>>
threadVars == <<tpc, tcoord, tbest, tresult>>

Pages == {"Scoring_Model", "Build_Feasibility", "Service_Area"}
Threads == {1, 2}
None == [kind |-> "None"]
NoException == [class |-> "none", message |-> ""]
Unbound == [kind |-> "unbound"]

\* Values of the variables a specification does not use.
IdleGeo ==
    /\ page = "none" /\ pc = "idle" /\ attempt = 0 /\ location = Unbound
    /\ events = <<>> /\ answers = <<>> /\ shown = "none" /\ exc = NoException
IdleInputs ==
    /\ facility_type = "Temporary Shelter" /\ size_sqm = 1000
    /\ latitude = 0 /\ longitude = 0
IdleThreads ==
    /\ tpc = [t \in Threads |-> "idle"] /\ tcoord = [t \in Threads |-> <<0, 0>>]
    /\ tbest = [t \in Threads |-> None] /\ tresult = [t \in Threads |-> None]
EmptyTables ==
    /\ census_df = [columns |-> CensusColumns, rows |-> <<>>]
    /\ shelters_df = [columns |-> SheltersColumns, rows |-> <<>>]
    /\ loaded = [census_df |-> census_df, shelters_df |-> shelters_df]
    /\ strict = TRUE

(***************************************************************************)
(* The geocode retry loop and the handler around it.                       *)
(*   Build_Feasibility.py 293-425, Scoring_Model.py 177-276,               *)
(*   Service_Area.py 100-171.                                              *)
(* The provider answers each geocode() call with a Location, with None, or *)
(* by raising GeocoderTimedOut.                                            *)
(***************************************************************************)
\* A plausible slip: one attempt too few.
max_retries_short == 2

\* A plausible slip: one attempt more than intended.
max_retries_long == 4
max_retries == 3
retry_delay == 2

GeoCoords == ScoreCoords \cup {<<37340, -121880>>}

TimeoutMessage ==
    "Geocoding service timed out after multiple attempts. Please try again later."

\* st.sidebar.button(...) pressed: the handler starts, for attempt in range(max_retries).
Press(p, ft, sz) ==
    /\ pc = "idle"
    /\ page' = p
    /\ facility_type' = ft
    /\ size_sqm' = sz
    /\ pc' = "loop"
    /\ attempt' = 0
    /\ UNCHANGED <<location, events, answers, shown, exc, latitude, longitude,
                   results, risks, result, tableVars, loaded, strict, ncalls, threadVars>>

\* location = geolocator.geocode(address) returns a Location: break.
GeocodeFound(c) ==
    /\ pc = "loop"
    /\ attempt < max_retries
    /\ events' = Append(events, <<"geocode", attempt>>)
    /\ answers' = Append(answers, [kind |-> "found", coord |-> c])
    /\ location' = [kind |-> "Location", latitude |-> c[1], longitude |-> c[2]]
    /\ pc' = "after"
    /\ UNCHANGED <<page, attempt, shown, exc, inputVars, results, risks, result,
                   tableVars, loaded, strict, ncalls, threadVars>>

\* A plausible variant: a None answer leaves the loop at once.
GeocodeNone_Break ==
    /\ pc = "loop"
    /\ attempt < max_retries
    /\ events' = Append(events, <<"geocode", attempt>>)
    /\ answers' = Append(answers, [kind |-> "none", coord |-> <<0, 0>>])
    /\ location' = None
    /\ pc' = "after"
    /\ UNCHANGED <<page, attempt, shown, exc, inputVars, results, risks, result,
                   tableVars, loaded, strict, ncalls, threadVars>>

\* geocode() returns None: "if location" is false, no exception: the for loop
\* goes on to its next iteration, or ends after the last one.
GeocodeNone ==
    /\ pc = "loop"
    /\ attempt < max_retries
    /\ events' = Append(events, <<"geocode", attempt>>)
    /\ answers' = Append(answers, [kind |-> "none", coord |-> <<0, 0>>])
    /\ location' = None
    /\ attempt' = attempt + 1
    /\ pc' = IF attempt + 1 < max_retries THEN "loop" ELSE "after"
    /\ UNCHANGED <<page, shown, exc, inputVars, results, risks, result,
                   tableVars, loaded, strict, ncalls, threadVars>>

\* geocode() raises GeocoderTimedOut: sleep and continue, or on the last attempt
\* raise Exception(...), which the handler's "except Exception as e" reports.
GeocodeTimedOut ==
    /\ pc = "loop"
    /\ attempt < max_retries
    /\ answers' = Append(answers, [kind |-> "timeout", coord |-> <<0, 0>>])
    /\ IF attempt < max_retries - 1
       THEN /\ events' = events \o <<<<"geocode", attempt>>, <<"sleep", retry_delay>>>>
            /\ attempt' = attempt + 1
            /\ pc' = "loop"
            /\ UNCHANGED <<shown, exc>>
       ELSE /\ events' = Append(events, <<"geocode", attempt>>)
            /\ attempt' = attempt
            /\ pc' = "done"
            /\ shown' = "error"
            /\ exc' = [class |-> "Exception", message |-> TimeoutMessage]
    /\ UNCHANGED <<page, location, inputVars, results, risks, result,
                   tableVars, loaded, strict, ncalls, threadVars>>

\* else: st.error("Could not find the specified address. ...")
ReportNotFound ==
    /\ pc = "after"
    /\ location = None
    /\ shown' = "not_found"
    /\ pc' = "done"
    /\ UNCHANGED <<page, attempt, location, events, answers, exc, inputVars, results, risks,
                   result, tableVars, loaded, strict, ncalls, threadVars>>

\* Scoring_Model.py 196-270: scorer = SiteScorer(latitude, longitude);
\* result = scorer.score_location(); an exception reaches "except Exception as e".
ScorePage ==
    /\ pc = "after"
    /\ page = "Scoring_Model"
    /\ location.kind = "Location"
    /\ latitude' = location.latitude
    /\ longitude' = location.longitude
    /\ LET r == score_location(census_df, shelters_df, location.latitude,
                               location.longitude, strict)
       IN  /\ census_df' = r.census_df
           /\ shelters_df' = r.shelters_df
           /\ IF r.result.kind = "raised"
              THEN /\ shown' = "error"
                   /\ exc' = [class |-> r.result.exception, message |-> "pandas"]
                   /\ UNCHANGED result
              ELSE /\ shown' = "results"
                   /\ result' = r.result
                   /\ UNCHANGED exc
    /\ ncalls' = ncalls + 1
    /\ pc' = "done"
    /\ UNCHANGED <<page, attempt, location, events, answers, facility_type, size_sqm,
                   results, risks, loaded, strict, threadVars>>

\* Build_Feasibility.py 312-372: results = analyze_feasibility(...), then
\* risks = generate_risk_assessment(..., results)
FeasibilityPage ==
    /\ pc = "after"
    /\ page = "Build_Feasibility"
    /\ location.kind = "Location"
    /\ latitude' = location.latitude
    /\ longitude' = location.longitude
    /\ results' = analyze_feasibility(location.latitude, location.longitude,
                                      facility_type, size_sqm)
    /\ risks' = generate_risk_assessment(location.latitude, location.longitude,
                                         facility_type, size_sqm, results')
    /\ shown' = "results"
    /\ pc' = "done"
    /\ UNCHANGED <<page, attempt, location, events, answers, exc, facility_type, size_sqm,
                   result, tableVars, loaded, strict, ncalls, threadVars>>

\* Service_Area.py 119-166: coverage_data = calculate_coverage(...), whose
\* module is not among the sources; only that it ran is recorded.
CoveragePage ==
    /\ pc = "after"
    /\ page = "Service_Area"
    /\ location.kind = "Location"
    /\ latitude' = location.latitude
    /\ longitude' = location.longitude
    /\ shown' = "results"
    /\ pc' = "done"
    /\ UNCHANGED <<page, attempt, location, events, answers, exc, facility_type, size_sqm,
                   results, risks, result, tableVars, loaded, strict, ncalls, threadVars>>

\* The tables of a page run: one fixed pair, or no tract rows at all.
InitGeo ==
    /\ IdleGeo /\ IdleInputs /\ IdleThreads
    /\ census_df \in {t \in CensusTables :
                        t.rows \in {<<>>, <<Tract(5001, 37330, -121885, 250, 200),
                                           Tract(5003, 37315, -121850, 0, 0)>>}}
    /\ shelters_df = [columns |-> SheltersColumns,
                      rows |-> <<Shelter(37340, -121885, 100, 50)>>]
    /\ loaded = [census_df |-> census_df, shelters_df |-> shelters_df]
    /\ strict \in BOOLEAN
    /\ results = None /\ risks = None /\ result = None /\ ncalls = 0

NextGeo ==
    \/ \E p \in Pages \ {"Build_Feasibility"} : Press(p, "Temporary Shelter", 1000)
    \/ \E ft \in FacilityTypes, sz \in {100, 1000, 2001} : Press("Build_Feasibility", ft, sz)
    \/ \E c \in GeoCoords : GeocodeFound(c)
    \/ GeocodeNone
    \/ GeocodeTimedOut
    \/ ReportNotFound
    \/ ScorePage
    \/ FeasibilityPage
    \/ CoveragePage

SpecGeo == InitGeo /\ [][NextGeo]_vars

(***************************************************************************)
(* Address resolution: the claims.                                         *)
(***************************************************************************)
\* The provider calls made so far, as positions in the event log.
Calls == {i \in DOMAIN events : events[i][1] = "geocode"}
Sleeps == {i \in DOMAIN events : events[i][1] = "sleep"}
AllTimedOut == \A i \in DOMAIN answers : answers[i].kind = "timeout"
LastAnswer == answers[Len(answers)]

\* What the handler's caller (the page's user) is given when the run ends.
Outcome ==
    IF shown = "results" THEN "Coordinate"
    ELSE IF shown = "not_found" THEN "AddressNotFound"
    ELSE IF shown = "error" THEN exc.class
    ELSE "none"

\* C1: a None answer of the provider is final: no provider call follows it in
\* the same resolution, and the not-found outcome is reported at once.
C1_NoRetryAfterNotFound ==
    \A i \in DOMAIN answers :
        answers[i].kind = "none" =>
            /\ i = Len(answers)
            /\ pc \in {"after", "done"}
            /\ (pc = "done" => shown = "not_found")

\* C2: when every call times out there are exactly 3 calls and then the
\* timeout error; the timeout error is not raised before the 3rd attempt has
\* failed; a Location on attempt 1, 2 or 3 ends the resolution with it.
C2_TimeoutAfterThreeAttempts ==
    /\ (AllTimedOut /\ answers # <<>>) =>
          /\ Cardinality(Calls) = Len(answers)
          /\ Cardinality(Calls) <= 3
          /\ (Cardinality(Calls) < 3 => pc = "loop" /\ shown = "none" /\ exc = NoException)
          /\ (Cardinality(Calls) = 3 =>
                pc = "done" /\ shown = "error" /\ exc.message = TimeoutMessage)
    /\ exc.message = TimeoutMessage =>
          /\ Cardinality(Calls) = 3
          /\ LastAnswer.kind = "timeout"
    /\ \A i \in DOMAIN answers :
          answers[i].kind = "found" =>
              /\ i = Len(answers)
              /\ i <= 3
              /\ pc \in {"after", "done"}
              /\ location = [kind |-> "Location", latitude |-> answers[i].coord[1],
                             longitude |-> answers[i].coord[2]]
              /\ shown # "not_found"
              /\ exc.message # TimeoutMessage

C2_Witness_Exhausted ==
    /\ pc = "done" /\ AllTimedOut /\ Len(answers) = 3 /\ shown = "error"

\* C3: between two consecutive provider calls there is exactly one sleep, of
\* 2 seconds whatever the attempt, and no sleep follows the last call.
C3_OneFixedSleepBetweenCalls ==
    /\ \A i \in Calls :
          (\E j \in Calls : j > i) =>
              /\ i + 1 \in Sleeps
              /\ events[i + 1][2] = 2
              /\ i + 2 \in Calls
    /\ \A i \in Sleeps : events[i][2] = 2
    /\ pc \in {"after", "done"} => Len(events) \in Calls

\* C4: a failed resolution is reported as a typed outcome: GeocodingTimeout
\* after the timeouts are exhausted, AddressNotFound after an empty answer,
\* and never as a bare generic Exception.
C4_TypedFailure ==
    (pc = "done" /\ shown # "results") =>
        /\ (LastAnswer.kind = "timeout" => Outcome = "GeocodingTimeout")
        /\ (LastAnswer.kind = "none" => Outcome = "AddressNotFound")
        /\ Outcome # "Exception"

(***************************************************************************)
(* score_location called again and again on the loaded tables (one call    *)
(* is one action: the method runs to its return or to its exception).      *)
(* strict only matters when a table is empty.                              *)
(***************************************************************************)
LoadedTables ==
    /\ census_df \in CensusTables
    /\ shelters_df \in SheltersTables
    /\ loaded = [census_df |-> census_df, shelters_df |-> shelters_df]
    /\ strict \in (IF census_df.rows = <<>> \/ shelters_df.rows = <<>> THEN BOOLEAN ELSE {TRUE})

InitScore ==
    /\ IdleGeo /\ IdleInputs /\ IdleThreads
    /\ LoadedTables
    /\ results = None /\ risks = None /\ result = None /\ ncalls = 0

\* scorer = SiteScorer(c[1], c[2]); result = scorer.score_location()
ScoreLocation(c) ==
    /\ ncalls < MaxCalls
    /\ latitude' = c[1]
    /\ longitude' = c[2]
    /\ LET r == score_location(census_df, shelters_df, c[1], c[2], strict)
       IN  /\ census_df' = r.census_df
           /\ shelters_df' = r.shelters_df
           /\ result' = r.result
    /\ ncalls' = ncalls + 1
    /\ UNCHANGED <<geoVars, facility_type, size_sqm, results, risks, loaded, strict, threadVars>>

NextScore == \E c \in ScoreCoords : ScoreLocation(c)

SpecScore == InitScore /\ [][NextScore]_vars

(***************************************************************************)
(* Two score_location evaluations for different coordinates running        *)
(* concurrently over the same module-global tables.  Each statement that   *)
(* touches a table is one step:                                            *)
(*   "dist"    census_df['dist'] = ...                       (line 114)    *)
(*   "idxmin"  best_row = census_df.loc[...idxmin()]         (line 115)    *)
(*   "km"      shelters_df['distance_km'] = ...              (lines 126-8) *)
(*   "filter"  nearby_shelters = shelters_df[... <= 3], then the scores    *)
(*             from best_row and nearby_shelters             (129-151)     *)
(***************************************************************************)
InitConc ==
    /\ IdleGeo /\ IdleInputs
    /\ LoadedTables
    /\ results = None /\ risks = None /\ result = None /\ ncalls = 0
    /\ tpc = [t \in Threads |-> "dist"]
    /\ tcoord \in {f \in [Threads -> ScoreCoords] : f[1] # f[2]}
    /\ tbest = [t \in Threads |-> None]
    /\ tresult = [t \in Threads |-> None]

ThreadRaise(t, cls) ==
    /\ tpc' = [tpc EXCEPT ![t] = "done"]
    /\ tresult' = [tresult EXCEPT ![t] = Raised(cls)]

StepDist(t) ==
    /\ tpc[t] = "dist"
    /\ IF census_df.rows = <<>> /\ strict
       THEN /\ ThreadRaise(t, "ValueError")
            /\ UNCHANGED census_df
       ELSE /\ census_df' = WriteDist(census_df, tcoord[t][1], tcoord[t][2])
            /\ tpc' = [tpc EXCEPT ![t] = "idxmin"]
            /\ UNCHANGED tresult
    /\ UNCHANGED <<geoVars, inputVars, results, risks, result, shelters_df, loaded, strict,
                   ncalls, tcoord, tbest>>

StepIdxmin(t) ==
    /\ tpc[t] = "idxmin"
    /\ IF census_df.rows = <<>>
       THEN /\ ThreadRaise(t, "ValueError")
            /\ UNCHANGED tbest
       ELSE /\ tbest' = [tbest EXCEPT ![t] = BestRow(census_df)]
            /\ tpc' = [tpc EXCEPT ![t] = "km"]
            /\ UNCHANGED tresult
    /\ UNCHANGED <<geoVars, inputVars, results, risks, result, tableVars, loaded, strict,
                   ncalls, tcoord>>

StepKm(t) ==
    /\ tpc[t] = "km"
    /\ IF shelters_df.rows = <<>> /\ strict
       THEN /\ ThreadRaise(t, "ValueError")
            /\ UNCHANGED shelters_df
       ELSE /\ shelters_df' = WriteDistanceKm(shelters_df, tcoord[t][1], tcoord[t][2])
            /\ tpc' = [tpc EXCEPT ![t] = "filter"]
            /\ UNCHANGED tresult
    /\ UNCHANGED <<geoVars, inputVars, results, risks, result, census_df, loaded, strict,
                   ncalls, tcoord, tbest>>

StepFilter(t) ==
    /\ tpc[t] = "filter"
    /\ tresult' = [tresult EXCEPT ![t] = Scores(tbest[t], NearbyShelters(shelters_df))]
    /\ tpc' = [tpc EXCEPT ![t] = "done"]
    /\ UNCHANGED <<geoVars, inputVars, results, risks, result, tableVars, loaded, strict,
                   ncalls, tcoord, tbest>>

NextConc ==
    \E t \in Threads : StepDist(t) \/ StepIdxmin(t) \/ StepKm(t) \/ StepFilter(t)

SpecConc == InitConc /\ [][NextConc]_vars

(***************************************************************************)
(* analyze_feasibility applied to every input of the grid.                 *)
(***************************************************************************)
InitFeas ==
    /\ IdleGeo /\ IdleInputs /\ IdleThreads /\ EmptyTables
    /\ results = None /\ risks = None /\ result = None /\ ncalls = 0

\* results = analyze_feasibility(latitude, longitude, facility_type, size_sqm)
\* risks = generate_risk_assessment(latitude, longitude, facility_type, size_sqm, results)
AnalyzeFeasibility(lat, lon, ft, sz) ==
    /\ ncalls = 0
    /\ latitude' = lat
    /\ longitude' = lon
    /\ facility_type' = ft
    /\ size_sqm' = sz
    /\ results' = analyze_feasibility(lat, lon, ft, sz)
    /\ risks' = generate_risk_assessment(lat, lon, ft, sz, results')
    /\ ncalls' = 1
    /\ UNCHANGED <<geoVars, result, tableVars, loaded, strict, threadVars>>

NextFeas ==
    \E lat \in Lats, lon \in Lons, ft \in FacilityTypes, sz \in Sizes :
        AnalyzeFeasibility(lat, lon, ft, sz)

SpecFeas == InitFeas /\ [][NextFeas]_vars

(***************************************************************************)
(* generate_risk_assessment applied to every input of the grid and to      *)
(* results whose scores lie on, just below and away from its thresholds.   *)
(***************************************************************************)
ZoningScores == {0, 69, 70, 84, 85, 100}
InfrastructureScores == {0, 59, 60, 79, 80, 100}

InitRisk ==
    /\ IdleGeo /\ IdleInputs /\ IdleThreads /\ EmptyTables
    /\ results = None /\ risks = None /\ result = None /\ ncalls = 0

\* risks = generate_risk_assessment(latitude, longitude, facility_type, size_sqm, results)
\* for a results dict holding the scores z and i.
GenerateRiskAssessment(lat, lon, ft, sz, z, i) ==
    /\ ncalls = 0
    /\ latitude' = lat
    /\ longitude' = lon
    /\ facility_type' = ft
    /\ size_sqm' = sz
    /\ results' = [zoning_score |-> QInt(z),
                   infrastructure_score |-> QInt(i),
                   overall_score |-> PyRoundTo(QAdd(QMul(Q(6, 10), QInt(z)),
                                                    QMul(Q(4, 10), QInt(i))), 10)]
    /\ risks' = generate_risk_assessment(lat, lon, ft, sz, results')
    /\ ncalls' = 1
    /\ UNCHANGED <<geoVars, result, tableVars, loaded, strict, threadVars>>

\* One assessment per run: nothing is enabled once it has been made.
NextRisk ==
    /\ ncalls = 0
    /\ \E lat \in Lats, lon \in Lons, ft \in FacilityTypes, sz \in Sizes,
          z \in ZoningScores, i \in InfrastructureScores :
           GenerateRiskAssessment(lat, lon, ft, sz, z, i)

SpecRisk == InitRisk /\ [][NextRisk]_vars

(***************************************************************************)
(* The three functions called on one input, then called again on the same  *)
(* input with the tables as the calls before left them.                    *)
(***************************************************************************)
InitTwice ==
    /\ IdleGeo /\ IdleInputs /\ IdleThreads
    /\ LoadedTables
    /\ results = None /\ risks = None /\ result = None /\ ncalls = 0

\* score_location, analyze_feasibility and generate_risk_assessment at
\* (lat, lon, ft, sz), on the tables as they are now.
CallAll(lat, lon, ft, sz) ==
    /\ LET r == score_location(census_df, shelters_df, lat, lon, strict)
       IN  /\ census_df' = r.census_df
           /\ shelters_df' = r.shelters_df
           /\ result' = r.result
    /\ results' = analyze_feasibility(lat, lon, ft, sz)
    /\ risks' = generate_risk_assessment(lat, lon, ft, sz, results')
    /\ ncalls' = ncalls + 1

FirstCall(c, ft, sz) ==
    /\ ncalls = 0
    /\ latitude' = c[1]
    /\ longitude' = c[2]
    /\ facility_type' = ft
    /\ size_sqm' = sz
    /\ CallAll(c[1], c[2], ft, sz)
    /\ UNCHANGED <<geoVars, loaded, strict, threadVars>>

SameCallAgain ==
    /\ ncalls >= 1
    /\ ncalls < MaxCalls
    /\ CallAll(latitude, longitude, facility_type, size_sqm)
    /\ UNCHANGED <<geoVars, inputVars, loaded, strict, threadVars>>

NextTwice ==
    \/ \E c \in ScoreCoords, ft \in {"Temporary Shelter", "Supportive Housing"} :
           FirstCall(c, ft, 2001)
    \/ SameCallAgain

SpecTwice == InitTwice /\ [][NextTwice]_vars

(***************************************************************************)
(* Scoring: the claims.                                                    *)
(***************************************************************************)
Zero == QInt(0)
One == QInt(1)
InUnit(x) == QLe(Zero, x) /\ QLe(x, One)

\* C5: after any sequence of score_location calls (here: calls that returned
\* their scores) the shared tract and shelter tables are as they were loaded:
\* same columns, same values.
C5_TablesNeverWritten ==
    result.kind = "scores" =>
        /\ census_df = loaded.census_df
        /\ shelters_df = loaded.shelters_df

\* What score_location returns for coordinate c when it runs alone on the
\* loaded tables.
Alone(c) ==
    score_location(loaded.census_df, loaded.shelters_df, c[1], c[2], strict).result

\* C6: under every interleaving, each of two concurrent evaluations returns
\* the tract id and the scores it returns when run alone.
C6_ConcurrentEqualsAlone ==
    \A t \in Threads : tpc[t] = "done" => tresult[t] = Alone(tcoord[t])

\* C7: the Shelter Access score returned is never negative.
C7_ShelterAccessNonNegative ==
    result.kind = "scores" => QLe(Zero, result.component_scores.Shelter_Access)

\* The loaded shelters within 3 km great-circle distance (bound inclusive) of
\* the coordinate of the last call, in table order.
SheltersWithin3km ==
    SelectSeq(loaded.shelters_df.rows,
              LAMBDA row : GreatCircle(latitude, longitude, row["Latitude"],
                                       row["Longitude"]) <= 3000)

\* C8: the Shelter Access score is exactly 0.2 when no shelter lies within
\* 3 km of the coordinate, and min(1 - mean occupancy ratio, 1) over the
\* shelters within 3 km otherwise.
C8_ShelterAccessByRadius ==
    result.kind = "scores" =>
        IF SheltersWithin3km = <<>>
        THEN result.component_scores.Shelter_Access = Q(2, 10)
        ELSE result.component_scores.Shelter_Access
                 = QMin(QSub(One, MeanOccupancy(SheltersWithin3km)), One)

\* C9: the six component scores and total_score all lie in [0, 1].
C9_ScoresInUnitInterval ==
    result.kind = "scores" =>
        /\ InUnit(result.total_score)
        /\ InUnit(result.component_scores.Access_to_Services)
        /\ InUnit(result.component_scores.Infrastructure)
        /\ InUnit(result.component_scores.Community_Impact)
        /\ InUnit(result.component_scores.Poverty_Rate)
        /\ InUnit(result.component_scores.Unhoused_Count)
        /\ InUnit(result.component_scores.Shelter_Access)

(***************************************************************************)
(* Feasibility: the claims.                                                *)
(***************************************************************************)
In0to100(x) == QLe(Zero, x) /\ QLe(x, QInt(100))

\* C10: zoning_score, infrastructure_score and overall_score are within
\* [0, 100], and the first two are integers.
C10_FeasibilityScoresInRange ==
    results # None =>
        /\ In0to100(results.zoning_score)
        /\ In0to100(results.infrastructure_score)
        /\ In0to100(results.overall_score)
        /\ QIsInt(results.zoning_score)
        /\ QIsInt(results.infrastructure_score)

\* A multiplied score with a fractional part was computed and rounded
\* (Supportive Housing of 1500 sqm: 75 * 0.9 = 67.5).
C10_Witness_RoundedAdjustment ==
    /\ results # None
    /\ facility_type = "Supportive Housing"
    /\ ~QIsInt(InfrastructureAdjusted(facility_type, size_sqm))
    /\ results.infrastructure_score = QInt(68)


(***************************************************************************)
(* Repeated calls, empty tables, the risk statements: the claims.          *)
(***************************************************************************)
\* C11: a call of score_location, analyze_feasibility and
\* generate_risk_assessment that repeats the call before it, on the same
\* inputs and the same loaded tables, returns what the call before returned
\* (an exception raised the first time is raised again).
C11_SecondCallSameResult ==
    [][(ncalls >= 1 /\ ncalls' = ncalls + 1)
          => (result' = result /\ results' = results /\ risks' = risks)]_vars

\* A second call has returned scores from tables that carry the columns the
\* first call wrote.
C11_Witness_CalledTwice ==
    /\ ncalls = 2
    /\ result # None
    /\ result.kind = "scores"
    /\ InSeq("distance_km", shelters_df.columns)
    /\ Len(shelters_df.rows) > 0
    /\ risks # None

\* C12: once score_location has been called on tables of which one was
\* loaded with no rows, the call raised the error EmptyReferenceSet: no
\* scores are returned and no default stands in for the missing shelters.
C12_EmptyTableRaisesEmptyReferenceSet ==
    (ncalls > 0 /\ (loaded.census_df.rows = <<>> \/ loaded.shelters_df.rows = <<>>))
        => result = Raised("EmptyReferenceSet")

\* The statements of one category of a returned risks dict.
Category(r, k) == r[CHOOSE n \in DOMAIN r : r[n].key = k].value

\* C13: generate_risk_assessment returns exactly the four categories
\* zoning_challenges, construction_risks, political_sensitivities and
\* environmental_flags; zoning_challenges holds one or two statements, each
\* other category one or three, none is empty, and the statements stand in
\* the order written: the score statement before the facility note, no
\* statement twice.
C13_FourCategoriesNeverEmpty ==
    risks # None =>
        /\ [n \in DOMAIN risks |-> risks[n].key]
             = <<"zoning_challenges", "construction_risks",
                 "political_sensitivities", "environmental_flags">>
        /\ Len(risks[1].value) \in {1, 2}
        /\ \A n \in 2..4 : Len(risks[n].value) \in {1, 3}
        /\ \A n \in 1..4 : \A a, b \in DOMAIN risks[n].value :
               a # b => risks[n].value[a] # risks[n].value[b]
        /\ risks[1].value[1] \in
             {"High risk of zoning conflicts - may require extensive variance process",
              "Moderate zoning challenges - conditional use permit likely required",
              "Zoning appears favorable, but standard permits still required"}

\* A report with a two-statement zoning category, a one-statement
\* construction category (score 80 and above) and three-statement others.
C13_Witness_MixedLengths ==
    /\ risks # None
    /\ Len(Category(risks, "zoning_challenges")) = 2
    /\ Len(Category(risks, "construction_risks")) = 1
    /\ Len(Category(risks, "political_sensitivities")) = 3
    /\ Len(Category(risks, "environmental_flags")) = 3

\* C14: the first zoning statement is the "High risk" one for a score below
\* 70, the "Moderate" one from 70 to below 85, the "favorable" one from 85
\* on; Supportive Housing adds the permanent-housing note after it,
\* Temporary Shelter the temporary-use-permit note, other types nothing.
C14_ZoningStatementByThreshold ==
    risks # None =>
        LET zc == Category(risks, "zoning_challenges")
            z == results.zoning_score
        IN  /\ z.n < 70 * z.d =>
                 zc[1] = "High risk of zoning conflicts - may require extensive variance process"
            /\ (70 * z.d <= z.n /\ z.n < 85 * z.d) =>
                 zc[1] = "Moderate zoning challenges - conditional use permit likely required"
            /\ z.n >= 85 * z.d =>
                 zc[1] = "Zoning appears favorable, but standard permits still required"
            /\ facility_type = "Supportive Housing" =>
                 Tail(zc) = <<"Permanent housing zoning requirements apply">>
            /\ facility_type = "Temporary Shelter" =>
                 Tail(zc) = <<"Temporary use permits may be required">>
            /\ facility_type \in {"Transitional Housing", "Emergency Shelter"} =>
                 Tail(zc) = <<>>

\* A score of exactly 70 for Supportive Housing: the "Moderate" statement
\* followed by the permanent-housing note.
C14_Witness_ScoreSeventy ==
    /\ risks # None
    /\ results.zoning_score = QInt(70)
    /\ facility_type = "Supportive Housing"
    /\ Category(risks, "zoning_challenges")
         = <<"Moderate zoning challenges - conditional use permit likely required",
             "Permanent housing zoning requirements apply">>

(***************************************************************************)
(* analyze_feasibility: the rule tables.                                   *)
(***************************************************************************)
\* C15: the zoning score follows the rule table.  In the downtown box
\* (37.33..37.34, -121.89..-121.88, edges included) it is 90 for Emergency
\* Shelter, 99 (90 * 1.1) for Temporary Shelter and 75 for the others; in
\* the residential box (37.31..37.32, -121.85..-121.84) 65 for Supportive
\* and Transitional Housing, 45 for Emergency Shelter and 50 (45 * 1.1,
\* rounded) for Temporary Shelter; elsewhere 80, and 88 for Temporary
\* Shelter.  Temporary Shelter is the only type multiplied.
C15_ZoningRuleTable ==
    results # None =>
        LET downtown == /\ latitude \in 37330..37340
                        /\ longitude \in -121890..-121880
            residential == /\ latitude \in 37310..37320
                           /\ longitude \in -121850..-121840
            expected ==
                IF downtown
                THEN CASE facility_type = "Temporary Shelter" -> 99
                       [] facility_type = "Emergency Shelter" -> 90
                       [] OTHER -> 75
                ELSE IF residential
                THEN CASE facility_type = "Temporary Shelter" -> 50
                       [] facility_type = "Emergency Shelter" -> 45
                       [] OTHER -> 65
                ELSE IF facility_type = "Temporary Shelter" THEN 88 ELSE 80
        IN  results.zoning_score = QInt(expected)

\* An Emergency Shelter on the north-east corner of the downtown box scores
\* exactly 90.
C15_Witness_EmergencyDowntownCorner ==
    /\ results # None
    /\ latitude = 37340
    /\ longitude = -121880
    /\ facility_type = "Emergency Shelter"
    /\ results.zoning_score = QInt(90)

C17_SameRectangles ==
    (results # None /\ risks # None) =>
        LET ps == Category(risks, "political_sensitivities")
            z == results.zoning_score
        IN  /\ (ps = <<"High visibility location - increased community engagement needed",
                       "Multiple stakeholders in the area",
                       "Historic district considerations">>)
                 <=> z \in {QInt(99), QInt(90), QInt(75)}
            /\ (ps = <<"Active neighborhood association in area",
                       "School proximity considerations",
                       "Residential density concerns">>)
                 <=> z \in {QInt(50), QInt(45), QInt(65)}
            /\ (ps = <<"Standard community engagement process required">>)
                 <=> z \in {QInt(88), QInt(80)}

\* Both functions place the eastern edge of the downtown box inside it.
C17_Witness_DowntownEdge ==
    /\ results # None /\ risks # None
    /\ longitude = -121880
    /\ latitude = 37335
    /\ results.zoning_score = QInt(75)
    /\ Len(Category(risks, "political_sensitivities")) = 3

(***************************************************************************)
(* Nearest tract.                                                          *)
(***************************************************************************)
\* Squared planar distance, in millidegrees, from the coordinate of the last
\* call to row i of the tract table as it was loaded.
PlanarSq(i) ==
    LET dlat == loaded.census_df.rows[i]["Latitude"] - latitude
        dlon == loaded.census_df.rows[i]["Longitude"] - longitude
    IN  dlat * dlat + dlon * dlon

\* C18: the tract score_location reports is one at the smallest planar
\* distance, in raw degrees, from the coordinate, and of several tracts at
\* exactly that distance the one that comes first in the table.
C18_NearestTractFirstOnTie ==
    (result # None /\ result.kind = "scores") =>
        \E i \in DOMAIN loaded.census_df.rows :
            /\ result.tract_id = loaded.census_df.rows[i]["Tract ID"]
            /\ \A k \in DOMAIN loaded.census_df.rows : PlanarSq(i) <= PlanarSq(k)
            /\ \A k \in DOMAIN loaded.census_df.rows : k < i => PlanarSq(k) > PlanarSq(i)

\* Tracts 5002 and 5001, in this order, are equally far from the
\* coordinate, and 5002 is reported.
C18_Witness_TieFirstWins ==
    /\ result # None /\ result.kind = "scores"
    /\ Len(loaded.census_df.rows) = 2
    /\ loaded.census_df.rows[1]["Tract ID"] = 5002
    /\ loaded.census_df.rows[2]["Tract ID"] = 5001
    /\ PlanarSq(1) = PlanarSq(2)
    /\ result.tract_id = 5002

(***************************************************************************)
(* The retry loop under any mix of answers.                                *)
(***************************************************************************)
\* The page has run its computation on a coordinate.
Computed ==
    \/ shown = "results"
    \/ ncalls > 0
    \/ results # None \/ risks # None \/ result # None
    \/ latitude # 0 \/ longitude # 0

\* Steps a page run can still take, at most.
Rank ==
    CASE pc = "idle" -> max_retries + 3
      [] pc = "loop" -> max_retries + 2 - attempt
      [] pc = "after" -> 1
      [] pc = "done" -> 0

\* The guard of some step of the page run holds: the button can be
\* pressed, the loop has an attempt left, or the code after the loop has a
\* branch for the location the loop left.
CanStep ==
    \/ pc = "idle"
    \/ pc = "loop" /\ attempt < max_retries
    \/ pc = "after" /\ location = None
    \/ pc = "after" /\ location.kind = "Location"
          /\ page \in Pages

\* C19: whatever the provider answers, it is called at most 3 times and
\* never again after it returned a coordinate; the computation of the page
\* runs only on a coordinate the last call returned; and the run ends:
\* every step brings it nearer to its end and it is never stuck before it.
C19_BoundedResolution ==
    /\ [](/\ Cardinality(Calls) <= 3
          /\ Cardinality(Calls) = Len(answers)
          /\ \A i \in DOMAIN answers : answers[i].kind = "found" => i = Len(answers)
          /\ Computed =>
                /\ answers # <<>>
                /\ LastAnswer.kind = "found"
                /\ <<latitude, longitude>> = LastAnswer.coord
          /\ Rank >= 0
          /\ pc # "done" => CanStep)
    /\ [][Rank' < Rank]_vars

\* A timeout, then an empty answer, then a coordinate on the third call,
\* and the page has computed on it.
C19_Witness_MixedThenFound ==
    /\ pc = "done"
    /\ Len(answers) = 3
    /\ answers[1].kind = "timeout"
    /\ answers[2].kind = "none"
    /\ answers[3].kind = "found"
    /\ Computed

\* C20: a run that ends without a coordinate made three calls, and the
\* third answer alone decides what is reported: the timeout error exactly
\* when the third call timed out, the not-found message exactly when it
\* returned nothing.
C20_LastAttemptDecides ==
    (pc = "done" /\ \A i \in DOMAIN answers : answers[i].kind # "found") =>
        /\ Len(answers) = 3
        /\ (shown = "error" /\ exc.message = TimeoutMessage) <=> answers[3].kind = "timeout"
        /\ shown = "not_found" <=> answers[3].kind = "none"
        /\ ~Computed

\* Two empty answers and then a timeout: the timeout error is reported.
C20_Witness_NotFoundTwiceThenTimeout ==
    /\ pc = "done"
    /\ Len(answers) = 3
    /\ answers[1].kind = "none"
    /\ answers[2].kind = "none"
    /\ answers[3].kind = "timeout"
    /\ shown = "error"
    /\ exc.message = TimeoutMessage

(***************************************************************************)
(* The page pipeline: generate_risk_assessment on analyze_feasibility's    *)
(* result for the same inputs.                                             *)
(***************************************************************************)
\* C21: in the page pipeline zoning_challenges starts with the "High risk
\* of zoning conflicts" statement exactly for a coordinate inside the
\* residential box (37.31..37.32, -121.85..-121.84), and with the
\* "favorable" statement exactly for a Temporary Shelter outside the
\* residential box or an Emergency Shelter inside the downtown box
\* (37.33..37.34, -121.89..-121.88).
C21_PipelineZoningStatement ==
    (results # None /\ risks # None) =>
        LET first == Category(risks, "zoning_challenges")[1]
            residential == /\ 37310 <= latitude /\ latitude <= 37320
                           /\ -121850 <= longitude /\ longitude <= -121840
            downtown == /\ 37330 <= latitude /\ latitude <= 37340
                        /\ -121890 <= longitude /\ longitude <= -121880
        IN  /\ (first = "High risk of zoning conflicts - may require extensive variance process")
                 <=> residential
            /\ (first = "Zoning appears favorable, but standard permits still required")
                 <=> \/ facility_type = "Temporary Shelter" /\ ~residential
                     \/ facility_type = "Emergency Shelter" /\ downtown

\* A Temporary Shelter outside both boxes: the default 80 becomes 88 and
\* the statement is the "favorable" one, followed by the permit note.
C21_Witness_TemporaryOutsideBoxes ==
    /\ results # None /\ risks # None
    /\ latitude = 37325
    /\ longitude = -121860
    /\ facility_type = "Temporary Shelter"
    /\ results.zoning_score = QInt(88)
    /\ Category(risks, "zoning_challenges")
         = <<"Zoning appears favorable, but standard permits still required",
             "Temporary use permits may be required">>

\* C22: in the page pipeline construction_risks holds the three severe
\* statements exactly for Supportive Housing with size_sqm > 2000; any
\* other type with size_sqm > 2000 has infrastructure_score 60 and gets the
\* three moderate statements.
C22_PipelineConstructionRisks ==
    (results # None /\ risks # None) =>
        LET cr == Category(risks, "construction_risks")
        IN  /\ (cr = <<"Significant infrastructure upgrades needed",
                       "Potential soil stability issues",
                       "Drainage system may require major modifications">>)
                 <=> (facility_type = "Supportive Housing" /\ size_sqm > 2000)
            /\ (facility_type # "Supportive Housing" /\ size_sqm > 2000) =>
                 /\ results.infrastructure_score = QInt(60)
                 /\ cr = <<"Moderate infrastructure improvements needed",
                           "Some site grading may be required",
                           "Utility connections may need upgrades">>

\* An Emergency Shelter of 2001 sqm: score exactly 60, moderate statements.
C22_Witness_LargeSiteScoreSixty ==
    /\ results # None /\ risks # None
    /\ size_sqm = 2001
    /\ facility_type = "Emergency Shelter"
    /\ results.infrastructure_score = QInt(60)
    /\ Category(risks, "construction_risks")[1]
         = "Moderate infrastructure improvements needed"

====
